---- MODULE Spec2Model ----
(***************************************************************************)
(* Model of papis' "explore" command chain (src/papis/commands/explore.py) *)
(* and of the crossref normalizer (src/papis/crossref.py).                 *)
(*                                                                         *)
(* Spec       : one run of "papis explore <stage> <stage> ...": the chain  *)
(*              of subcommands is declared up front, and the subcommand    *)
(*              callbacks are invoked one after the other on the shared    *)
(*              ctx.obj['documents'].                                      *)
(* SpecMapper : crossref_data_to_papis_data applied to a source record.    *)
(* SpecCitations : the citations subcommand on every input, after yaml.    *)
(* SpecEdit   : one run of Edit.main (src/papis/commands/edit.py).         *)
(***************************************************************************)
EXTENDS Integers, Sequences, FiniteSets, TLC

VARIABLES
    pending,    \* the subcommands of the chain still to be invoked, in declaration order
    idx,        \* number of subcommands invoked so far
    documents,  \* ctx.obj['documents']
    status,     \* "Idle" | "Running" | "Completed" | "Failed" (an exception left a
                \* callback) | "UsageError" (the command line did not resolve)
    last,       \* what the last invoked callback was given and what it did
    data,       \* input of crossref_data_to_papis_data
    new_data,   \* what crossref_data_to_papis_data returned
    edit        \* one run of Edit.main: its arguments, the picked document, the
                \* files of the document's folder, and where the run stands

vars == <<pending, idx, documents, status, last, data, new_data, edit>>

(***************************************************************************)
(* Bounds                                                                  *)
(***************************************************************************)
MaxStages == 3      \* longest chain of subcommands
MaxOut == 2         \* most records one adapter call returns
MaxCitations == 2   \* most entries in a document's citations list
MaxKeys == 3        \* most keys of one source record given to the mapper

(***************************************************************************)
(* Python helpers                                                          *)
(***************************************************************************)
\* An optional value (None or a value) is the empty set or a singleton.
None == {}
Some(x) == {x}
The(o) == CHOOSE x \in o : TRUE

\* seq[i] of Python, i 0-based: a negative i counts from the end, and an
\* index outside the list raises IndexError.
PyIndex(seq, i) ==
    LET j == IF i < 0 THEN i + Len(seq) ELSE i
    IN  IF j >= 0 /\ j < Len(seq)
        THEN [raised |-> FALSE, val |-> Some(seq[j + 1])]
        ELSE [raised |-> TRUE, val |-> None]

\* seq[0:n] of Python for n >= 0
PySlice(seq, n) == SubSeq(seq, 1, IF n < Len(seq) THEN n ELSE Len(seq))

Range(seq) == {seq[i] : i \in 1..Len(seq)}

SeqsUpTo(S, n) == UNION {[1..k -> S] : k \in 0..n}

(***************************************************************************)
(* Documents.  A record of the accumulator is identified by the invocation *)
(* that created it and its position in that invocation's output; "data"    *)
(* tells where its content came from ("None": Document(data=None)).        *)
(***************************************************************************)
Doc(i, k, d) == [stage |-> i, n |-> k, data |-> d]

\* [papis.document.from_data(data=d) for d in data] for n adapter results
from_data(i, n) == [k \in 1..n |-> Doc(i, k, "record")]

(***************************************************************************)
(* Python values of a crossref message.  A string is the sequence of its   *)
(* characters; a dict is a function from its keys.                         *)
(***************************************************************************)
Str(s) == [t |-> "str", v |-> s]
List(xs) == [t |-> "list", v |-> xs]
Dict(f) == [t |-> "dict", v |-> f]
Num(n) == [t |-> "int", v |-> n]
NoneV == [t |-> "None", v |-> 0]

\* The result of evaluating an expression: a value, or an exception.
Ok(x) == [raised |-> FALSE, val |-> Some(x)]
Exc == [raised |-> TRUE, val |-> None]

\* d.get(k) of a dict
Get(d, k) == IF k \in DOMAIN d.v THEN d.v[k] ELSE NoneV

\* x[i] for an integer i: IndexError outside a list or a string, KeyError on
\* a dict (whose keys are strings), TypeError on a number or None.
Subscript(x, i) ==
    CASE x.t = "list" -> PyIndex(x.v, i)
      [] x.t = "str" ->
            LET r == PyIndex(x.v, i)
            IN  IF r.raised THEN Exc ELSE Ok(Str(<<The(r.val)>>))
      [] OTHER -> Exc

\* sep.join(strs) for a sequence of character sequences
RECURSIVE Join(_, _)
Join(sep, strs) ==
    IF Len(strs) = 0 THEN <<>>
    ELSE IF Len(strs) = 1 THEN strs[1]
    ELSE strs[1] \o sep \o Join(sep, Tail(strs))

\* str.lower() on the keys of a reference entry
PyLower(k) == IF k = "DOI" THEN "doi" ELSE k

\* "{...}".format of a value: str(x)
ToStr(x) ==
    CASE x.t = "str" -> x.v
      [] x.t = "None" -> <<"N", "o", "n", "e">>
      [] x.t = "int" -> <<"0", "1", "2", "3", "4", "5", "6", "7", "8", "9">>[x.v + 1]
      [] OTHER -> <<>>

type_converter == {
     <<<<"b", "o", "o", "k">>,
        <<"b", "o", "o", "k">>>>,
     <<<<"b", "o", "o", "k", "-", "c", "h", "a", "p", "t", "e", "r">>,
        <<"i", "n", "b", "o", "o", "k">>>>,
     <<<<"b", "o", "o", "k", "-", "p", "a", "r", "t">>,
        <<"i", "n", "b", "o", "o", "k">>>>,
     <<<<"b", "o", "o", "k", "-", "s", "e", "c", "t", "i", "o", "n">>,
        <<"i", "n", "b", "o", "o", "k">>>>,
     <<<<"b", "o", "o", "k", "-", "s", "e", "r", "i", "e", "s">>,
        <<"i", "n", "c", "o", "l", "l", "e", "c", "t", "i", "o", "n">>>>,
     <<<<"b", "o", "o", "k", "-", "s", "e", "t">>,
        <<"i", "n", "c", "o", "l", "l", "e", "c", "t", "i", "o", "n">>>>,
     <<<<"b", "o", "o", "k", "-", "t", "r", "a", "c", "k">>,
        <<"i", "n", "b", "o", "o", "k">>>>,
     <<<<"d", "a", "t", "a", "s", "e", "t">>,
        <<"m", "i", "s", "c">>>>,
     <<<<"d", "i", "s", "s", "e", "r", "t", "a", "t", "i", "o", "n">>,
        <<"p", "h", "d", "t", "h", "e", "s", "i", "s">>>>,
     <<<<"e", "d", "i", "t", "e", "d", "-", "b", "o", "o", "k">>,
        <<"b", "o", "o", "k">>>>,
     <<<<"j", "o", "u", "r", "n", "a", "l", "-", "a", "r", "t", "i", "c", "l", "e">>,
        <<"a", "r", "t", "i", "c", "l", "e">>>>,
     <<<<"j", "o", "u", "r", "n", "a", "l", "-", "i", "s", "s", "u", "e">>,
        <<"m", "i", "s", "c">>>>,
     <<<<"j", "o", "u", "r", "n", "a", "l", "-", "v", "o", "l", "u", "m", "e">>,
        <<"a", "r", "t", "i", "c", "l", "e">>>>,
     <<<<"m", "o", "n", "o", "g", "r", "a", "p", "h">>,
        <<"m", "o", "n", "o", "g", "r", "a", "p", "h">>>>,
     <<<<"o", "t", "h", "e", "r">>,
        <<"m", "i", "s", "c">>>>,
     <<<<"p", "e", "e", "r", "-", "r", "e", "v", "i", "e", "w">>,
        <<"a", "r", "t", "i", "c", "l", "e">>>>,
     <<<<"p", "o", "s", "t", "e", "d", "-", "c", "o", "n", "t", "e", "n", "t">>,
        <<"m", "i", "s", "c">>>>,
     <<<<"p", "r", "o", "c", "e", "e", "d", "i", "n", "g", "s", "-", "a", "r", "t", "i", "c", "l", "e">>,
        <<"i", "n", "p", "r", "o", "c", "e", "e", "d", "i", "n", "g", "s">>>>,
     <<<<"p", "r", "o", "c", "e", "e", "d", "i", "n", "g", "s">>,
        <<"i", "n", "p", "r", "o", "c", "e", "e", "d", "i", "n", "g", "s">>>>,
     <<<<"p", "r", "o", "c", "e", "e", "d", "i", "n", "g", "s", "-", "s", "e", "r", "i", "e", "s">>,
        <<"i", "n", "p", "r", "o", "c", "e", "e", "d", "i", "n", "g", "s">>>>,
     <<<<"r", "e", "f", "e", "r", "e", "n", "c", "e", "-", "b", "o", "o", "k">>,
        <<"b", "o", "o", "k">>>>,
     <<<<"r", "e", "p", "o", "r", "t">>,
        <<"r", "e", "p", "o", "r", "t">>>>,
     <<<<"r", "e", "p", "o", "r", "t", "-", "s", "e", "r", "i", "e", "s">>,
        <<"i", "n", "p", "r", "o", "c", "e", "e", "d", "i", "n", "g", "s">>>>,
     <<<<"s", "t", "a", "n", "d", "a", "r", "d", "-", "s", "e", "r", "i", "e", "s">>,
        <<"i", "n", "c", "o", "l", "l", "e", "c", "t", "i", "o", "n">>>>,
     <<<<"s", "t", "a", "n", "d", "a", "r", "d">>,
        <<"t", "e", "c", "h", "r", "e", "p", "o", "r", "t">>>> }

(***************************************************************************)
(* The actions of key_conversion                                           *)
(***************************************************************************)
\* "author": [{k: a.get(k) for k in ['given', 'family']} for a in authors]
author_action(authors) ==
    CASE authors.t = "list" ->
            IF \A i \in 1..Len(authors.v) : authors.v[i].t = "dict"
            THEN Ok(List([i \in 1..Len(authors.v) |->
                        Dict([given |-> Get(authors.v[i], "given"),
                              family |-> Get(authors.v[i], "family")])]))
            ELSE Exc
      [] authors.t = "str" -> IF Len(authors.v) = 0 THEN Ok(List(<<>>)) ELSE Exc
      [] authors.t = "dict" -> IF DOMAIN authors.v = {} THEN Ok(List(<<>>)) ELSE Exc
      [] OTHER -> Exc

\* "container-title": x[0]
container_title_action(x) == Subscript(x, 0)

\* re.sub(r"(-[^-])", r"-\1", p): left to right, every dash followed by a
\* character that is no dash gets a second dash in front of it.
RECURSIVE DoubleDash(_)
DoubleDash(p) ==
    IF Len(p) < 2 THEN p
    ELSE IF p[1] = "-" /\ p[2] # "-"
         THEN <<"-", "-", p[2]>> \o DoubleDash(SubSeq(p, 3, Len(p)))
         ELSE <<p[1]>> \o DoubleDash(Tail(p))

page_action_single(p) == IF p.t = "str" THEN Ok(Str(p.v)) ELSE Exc

\* "page": re.sub raises TypeError on anything but a string
page_action(p) == IF p.t = "str" THEN Ok(Str(DoubleDash(p.v))) ELSE Exc

\* "published-print": x.get("date-parts")[0][i]
subscript_result(first, i) == IF first.raised THEN Exc ELSE Subscript(The(first.val), i)

date_parts_action(x, i) ==
    IF x.t # "dict" THEN Exc
    ELSE subscript_result(Subscript(Get(x, "date-parts"), 0), i)

\* "reference": [{key.lower(): c[key] for key in
\*               set(c.keys()) - set(("key", "doi-asserted-by"))} for c in cs]
reference_entry(c) ==
    LET keep == DOMAIN c.v \ {"key", "doi-asserted-by"}
    IN  Dict([k \in {PyLower(x) : x \in keep} |->
                c.v[CHOOSE x \in keep : PyLower(x) = k]])

reference_action(cs) ==
    CASE cs.t = "list" ->
            IF \A i \in 1..Len(cs.v) : cs.v[i].t = "dict"
            THEN Ok(List([i \in 1..Len(cs.v) |-> reference_entry(cs.v[i])]))
            ELSE Exc
      [] cs.t = "str" -> IF Len(cs.v) = 0 THEN Ok(List(<<>>)) ELSE Exc
      [] cs.t = "dict" -> IF DOMAIN cs.v = {} THEN Ok(List(<<>>)) ELSE Exc
      [] OTHER -> Exc

\* "title": " ".join(t).  A list of strings is joined; a string is joined
\* character by character; a number or None raises TypeError.  (Joining the
\* keys of a non-empty dict is not modelled: no input holds one.)
title_action(t) ==
    CASE t.t = "list" ->
            IF \A i \in 1..Len(t.v) : t.v[i].t = "str"
            THEN Ok(Str(Join(<<" ">>, [i \in 1..Len(t.v) |-> t.v[i].v])))
            ELSE Exc
      [] t.t = "str" -> Ok(Str(Join(<<" ">>, [i \in 1..Len(t.v) |-> <<t.v[i]>>])))
      [] t.t = "dict" /\ DOMAIN t.v = {} -> Ok(Str(<<>>))
      [] OTHER -> Exc

type_action_unconverted(t) == IF t.t = "str" THEN Ok(t) ELSE Exc

\* "type": type_converter[t], KeyError (or TypeError) when t is no key of it
type_action(t) ==
    IF t.t = "str" /\ \E row \in type_converter : row[1] = t.v
    THEN Ok(Str((CHOOSE row \in type_converter : row[1] = t.v)[2]))
    ELSE Exc

\* _conv_data['action'](data[xrefkey])
Apply(action, x) ==
    CASE action = "author" -> author_action(x)
      [] action = "container-title" -> container_title_action(x)
      [] action = "page" -> page_action(x)
      [] action = "year" -> date_parts_action(x, 0)
      [] action = "month" -> date_parts_action(x, 1)
      [] action = "reference" -> reference_action(x)
      [] action = "title" -> title_action(x)
      [] action = "type" -> type_action(x)

\* One conversion rule: an optional 'key' and an optional 'action'.
Rule(k, a) == [key |-> k, action |-> a]

\* key_conversion, each entry as its list of rules (a single dict is the
\* one-element list crossref_data_to_papis_data makes of it).
key_conversion ==
    [xrefkey \in {"DOI", "URL", "author", "container-title", "issue",
                  "language", "page", "published-print", "publisher",
                  "reference", "title", "type", "volume"} |->
        CASE xrefkey = "DOI" -> <<Rule(Some("doi"), None)>>
          [] xrefkey = "URL" -> <<Rule(Some("url"), None)>>
          [] xrefkey = "author" -> <<Rule(Some("author_list"), Some("author"))>>
          [] xrefkey = "container-title" ->
                <<Rule(Some("journal"), Some("container-title"))>>
          [] xrefkey = "page" -> <<Rule(Some("pages"), Some("page"))>>
          [] xrefkey = "published-print" ->
                <<Rule(Some("year"), Some("year")),
                  Rule(Some("month"), Some("month"))>>
          [] xrefkey = "reference" -> <<Rule(Some("citations"), Some("reference"))>>
          [] xrefkey = "title" -> <<Rule(Some("title"), Some("title"))>>
          [] xrefkey = "type" -> <<Rule(Some("type"), Some("type"))>>
          [] OTHER -> <<Rule(None, None)>>]

\* key_conversion.keys(), in the order the dict literal gives them
key_conversion_keys ==
    <<"DOI", "URL", "author", "container-title", "issue", "language", "page",
      "published-print", "publisher", "reference", "title", "type", "volume">>

(***************************************************************************)
(* Configuration read through papis.config.get, and papis.utils.format_doc *)
(***************************************************************************)
\* papis.config.get('multiple-authors-separator')
multiple_authors_separator == <<" ", "a", "n", "d", " ">>

\* papis.config.get("multiple-authors-format").format(au=author), for the
\* format "{au[family]}, {au[given]}"
multiple_authors_format(au) ==
    ToStr(au.v["family"]) \o <<",", " ">> \o ToStr(au.v["given"])

\* papis.utils.format_doc(papis.config.get("ref-format"), new_data), for the
\* format "{doc[doi]} {doc[author]}"; a field the record lacks formats as
\* the empty string
format_field(fields, k) == IF k \in DOMAIN fields THEN ToStr(fields[k]) ELSE <<>>

format_doc_ref(fields) ==
    format_field(fields, "doi") \o <<" ">> \o format_field(fields, "author")

\* re.sub(r'\s', '', s)
Whitespace == {" ", "\t", "\n", "\r", "\f"}
strip_whitespace(s) == SelectSeq(s, LAMBDA c : c \notin Whitespace)

(***************************************************************************)
(* Edit.main (src/papis/commands/edit.py).  The run is followed step by    *)
(* step: pick, the notes field, the notes file, the editor.                *)
(*   pc      "start", "picked", "named" (the notes field is there),        *)
(*           "ready" (the notes file is there), "done" (the editor was     *)
(*           opened), "failed" (an exception left main), "none" (no run)   *)
(*   notes   args.notes                                                    *)
(*   field   document["notes"], if the document has it                     *)
(*   saved   the notes field of the document's info file on disk           *)
(*   saves   the number of calls of document.save()                        *)
(*   files   the files of the document's main folder next to the info      *)
(*           file, each with its content ("text", or "empty")              *)
(*   editor  the path papis.utils.editFile was called on, if it was        *)
(*   was     field and files when main started                             *)
(***************************************************************************)
NoEdit ==
    [pc |-> "none", notes |-> FALSE, field |-> None, saved |-> None, saves |-> 0,
     files |-> <<>>, editor |-> None, was |-> [field |-> None, files |-> <<>>]]

\* The names a notes field may hold, and the document's info file
NotesNames == {"notes.tex", "todo.md"}
InfoFile == "info.yaml"

\* The folders main may find: every set of the names, each file with text
Folders == UNION {[S -> {"text"}] : S \in SUBSET (NotesNames \cup {"paper.pdf"})}

\* document = self.pick(documents): a document, or None when there is none
\* to pick, and then document.has / document.getInfoFile raises
main_pick(e, picked) == [e EXCEPT !.pc = IF picked THEN "picked" ELSE "failed"]

notes_field_overwritten(e, ok) ==
    IF ok
    THEN [e EXCEPT !.field = Some("notes.tex"), !.saved = Some("notes.tex"),
                   !.saves = @ + 1, !.pc = "named"]
    ELSE [e EXCEPT !.field = Some("notes.tex"), !.pc = "failed"]

\* if not document.has("notes"): document["notes"] = "notes.tex";
\* document.save() (ok: save returns; it raises otherwise)
notes_field(e, ok) ==
    IF e.field # None THEN [e EXCEPT !.pc = "named"]
    ELSE IF ok
    THEN [e EXCEPT !.field = Some("notes.tex"), !.saved = Some("notes.tex"),
                   !.saves = @ + 1, !.pc = "named"]
    ELSE [e EXCEPT !.field = Some("notes.tex"), !.pc = "failed"]

\* notesPath = join(document.getMainFolder(), document["notes"]);
\* if not os.path.exists(notesPath): open(notesPath, "w+").close()
\* (ok: open returns; it raises otherwise)
notes_file(e, ok) ==
    IF The(e.field) \in DOMAIN e.files THEN [e EXCEPT !.pc = "ready"]
    ELSE IF ok THEN [e EXCEPT !.files = (The(e.field) :> "empty") @@ @, !.pc = "ready"]
    ELSE [e EXCEPT !.pc = "failed"]

\* papis.utils.editFile(path, self.config)
editFile(e, path) == [e EXCEPT !.editor = Some(path), !.pc = "done"]

(***************************************************************************)
(* crossref_data_to_papis_data                                             *)
(***************************************************************************)
\* One rule of one source key (the body of the inner loop): the target key,
\* the value, and the try/except around the action and the assignment.
\* acc.fields is new_data, acc.log the keys warned about.
papis_key_of_source(xrefkey, rule) == xrefkey

papis_key_of(xrefkey, rule) == IF rule.key # None THEN The(rule.key) ELSE xrefkey

papis_val_of(xrefkey, rule, d) ==
    IF rule.action # None THEN Apply(The(rule.action), d[xrefkey]) ELSE Ok(d[xrefkey])

try_assign_unguarded(acc, papis_key, r) ==
    IF r.raised
    THEN [acc EXCEPT !.log = Append(@, papis_key), !.raised = TRUE]
    ELSE [acc EXCEPT !.fields = (papis_key :> The(r.val)) @@ @]

try_assign(acc, papis_key, r) ==
    IF r.raised
    THEN [acc EXCEPT !.log = Append(@, papis_key)]
    ELSE [acc EXCEPT !.fields = (papis_key :> The(r.val)) @@ @]

convert(acc, xrefkey, rule, d) ==
    try_assign(acc, papis_key_of(xrefkey, rule), papis_val_of(xrefkey, rule, d))

convert_rules_per_key(acc, xrefkey, rules, d) ==
    IF \E i \in 1..Len(rules) : papis_val_of(xrefkey, rules[i], d).raised
    THEN [acc EXCEPT !.log = Append(@, xrefkey)]
    ELSE IF Len(rules) = 1 THEN convert(acc, xrefkey, rules[1], d)
    ELSE convert(convert(acc, xrefkey, rules[1], d), xrefkey, rules[2], d)

convert_rules_first_only(acc, xrefkey, rules, d) ==
    IF rules = <<>> \/ acc.raised THEN acc
    ELSE convert(acc, xrefkey, Head(rules), d)

\* for _conv_data in _conv_data_src; an exception that leaves the body ends
\* the loops
RECURSIVE convert_rules(_, _, _, _)
convert_rules(acc, xrefkey, rules, d) ==
    IF rules = <<>> \/ acc.raised THEN acc
    ELSE convert_rules(convert(acc, xrefkey, Head(rules), d), xrefkey, Tail(rules), d)

\* for xrefkey in key_conversion.keys(), skipping the keys data lacks
RECURSIVE convert_keys(_, _, _)
convert_keys(acc, keys, d) ==
    IF keys = <<>> \/ acc.raised THEN acc
    ELSE convert_keys(
            IF Head(keys) \in DOMAIN d
            THEN convert_rules(acc, Head(keys), key_conversion[Head(keys)], d)
            ELSE acc,
            Tail(keys), d)

add_author_reversed(fields) ==
    IF "author_list" \in DOMAIN fields
    THEN ("author" :> Str(Join(multiple_authors_separator,
                [i \in 1..Len(fields["author_list"].v) |->
                    multiple_authors_format(fields["author_list"].v[
                        Len(fields["author_list"].v) + 1 - i])])))
         @@ fields
    ELSE fields

\* if 'author_list' in new_data.keys(): new_data['author'] = ...
add_author(fields) ==
    IF "author_list" \in DOMAIN fields
    THEN ("author" :> Str(Join(multiple_authors_separator,
                [i \in 1..Len(fields["author_list"].v) |->
                    multiple_authors_format(fields["author_list"].v[i])])))
         @@ fields
    ELSE fields

\* new_data['ref'] = re.sub(r'\s', '', format_doc(ref-format, new_data))
add_ref(fields) == ("ref" :> Str(strip_whitespace(format_doc_ref(fields)))) @@ fields

derive_ref_first(m) ==
    IF m.raised
    THEN [raised |-> TRUE, fields |-> <<>>, log |-> m.log, mapped |-> m.fields]
    ELSE [raised |-> FALSE, fields |-> add_author(add_ref(m.fields)),
          log |-> m.log, mapped |-> m.fields]

\* The derived author, then the derived ref.  mapped keeps what the mapping
\* loop built (new_data when the loop is left).
derive(m) ==
    IF m.raised
    THEN [raised |-> TRUE, fields |-> <<>>, log |-> m.log, mapped |-> m.fields]
    ELSE [raised |-> FALSE, fields |-> add_ref(add_author(m.fields)),
          log |-> m.log, mapped |-> m.fields]

\* The whole function: the mapping loop, the derived author, the derived ref.
\* data.keys() raises AttributeError when data is no mapping.
crossref_data_to_papis_data(d) ==
    IF d.t # "dict"
    THEN [raised |-> TRUE, fields |-> <<>>, log |-> <<>>, mapped |-> <<>>]
    ELSE derive(convert_keys([raised |-> FALSE, fields |-> <<>>, log |-> <<>>],
                             key_conversion_keys, d.v))

(***************************************************************************)
(* Source records for the mapper                                           *)
(***************************************************************************)
SourceKeys == DOMAIN key_conversion \cup {"score"}

SourceValues(k) ==
    CASE k = "DOI" -> {Str(<<"1", "0", ".", "1", "/", "x">>),
                       Str(<<"1", "0", ".", "1", "/", " ", "y">>)}
      [] k = "URL" -> {Str(<<"u">>)}
      [] k = "author" ->
            {List(<<Dict([given |-> Str(<<"A">>), family |-> Str(<<"B">>)])>>),
             List(<<Dict([family |-> Str(<<"C">>)]),
                    Dict([given |-> Str(<<"D">>), family |-> Str(<<"E">>)])>>),
             List(<<Str(<<"F">>)>>),
             NoneV}
      [] k = "container-title" -> {List(<<Str(<<"J">>), Str(<<"K">>)>>), List(<<>>)}
      [] k = "page" -> {Str(<<"1", "2", "-", "3">>), Str(<<"8", "-", "9", "9">>),
                        Str(<<"4", "-", "-", "5">>), Num(7)}
      [] k = "published-print" ->
            {Dict([x \in {"date-parts"} |-> List(<<List(<<Num(1), Num(5)>>)>>)]),
             Dict([x \in {"date-parts"} |-> List(<<List(<<Num(1)>>)>>)]),
             Dict(<<>>)}
      [] k = "reference" ->
            {List(<<Dict([x \in {"DOI", "key"} |-> Str(<<"z">>)])>>), Num(0)}
      [] k = "title" ->
            {List(<<Str(<<"A", " ", "S", "t", "u", "d", "y">>)>>),
             List(<<Str(<<"A">>), Str(<<"B">>)>>),
             NoneV}
      [] k = "type" ->
            {Str(<<"j", "o", "u", "r", "n", "a", "l", "-", "a", "r", "t", "i", "c", "l", "e">>),
             Str(<<"p", "a", "t", "e", "n", "t">>)}
      [] k = "score" -> {Num(1)}
      [] OTHER -> {Str(<<"1">>)}

RECURSIVE FieldsOver(_)
FieldsOver(K) ==
    IF K = {} THEN {<<>>}
    ELSE LET k == CHOOSE x \in K : TRUE
         IN  {(k :> v) @@ f : v \in SourceValues(k), f \in FieldsOver(K \ {k})}

\* The mappings with at most MaxKeys keys, and two inputs that are no mapping.
SourceRecords ==
    {Dict(f) : f \in UNION {FieldsOver(K) :
                    K \in {K \in SUBSET SourceKeys : Cardinality(K) <= MaxKeys}}}
    \cup {List(<<>>), NoneV}

(***************************************************************************)
(* SpecMapper: crossref_data_to_papis_data applied to one source record    *)
(***************************************************************************)
NoLast ==
    [name |-> "", before |-> <<>>, out |-> <<>>, raised |-> FALSE,
     adapter_failed |-> FALSE, number |-> None, effect |-> <<>>,
     looked |-> <<>>, failed_dois |-> <<>>, batch |-> <<>>, args |-> <<>>]

InitMapper ==
    /\ data \in SourceRecords
    /\ new_data = None
    /\ pending = <<>>
    /\ idx = 0
    /\ documents = <<>>
    /\ status = "Idle"
    /\ last = NoLast
    /\ edit = NoEdit

normalize ==
    /\ new_data = None
    /\ new_data' = Some(crossref_data_to_papis_data(data))
    /\ UNCHANGED <<data, pending, idx, documents, status, last, edit>>

NextMapper == normalize

SpecMapper == InitMapper /\ [][NextMapper]_vars

(***************************************************************************)
(* Properties of the mapper                                                *)
(***************************************************************************)
\* The rule's target key and whether its transform raises on a value
TargetKey(xrefkey, rule) == IF rule.key # None THEN The(rule.key) ELSE xrefkey
RuleRaises(rule, x) == rule.action # None /\ Apply(The(rule.action), x).raised
KeyRaises(xrefkey, x) ==
    \E i \in 1..Len(key_conversion[xrefkey]) : RuleRaises(key_conversion[xrefkey][i], x)
MappedKeys(d) == DOMAIN d.v \cap DOMAIN key_conversion

\* C1: when the transform of a source key k raises, the function still returns
\* a record, and every other source key of the record that key_conversion
\* knows yields its canonical field with the value it has when k's value is
\* replaced by one whose transform succeeds.
C1_FailureIsolation ==
    (new_data # None /\ data.t = "dict") =>
        LET res == The(new_data)
        IN  /\ ~res.raised
            /\ \A k \in MappedKeys(data) : KeyRaises(k, data.v[k]) =>
                \A good \in {x \in SourceValues(k) : ~KeyRaises(k, x)} :
                    LET other == crossref_data_to_papis_data(
                                    Dict([data.v EXCEPT ![k] = good]))
                    IN  \A j \in MappedKeys(data) \ {k} :
                        \A i \in 1..Len(key_conversion[j]) :
                            LET tk == TargetKey(j, key_conversion[j][i])
                            IN  /\ tk \in DOMAIN other.fields <=> tk \in DOMAIN res.fields
                                /\ tk \in DOMAIN other.fields =>
                                        res.fields[tk] = other.fields[tk]

\* C1's case: one key's transform raised and another key's field was mapped.
C1_Witness ==
    /\ new_data # None
    /\ data.t = "dict"
    /\ "type" \in DOMAIN data.v /\ KeyRaises("type", data.v["type"])
    /\ "title" \in DOMAIN data.v /\ ~KeyRaises("title", data.v["title"])
    /\ "title" \in DOMAIN The(new_data).fields
    /\ "type" \notin DOMAIN The(new_data).fields

\* C13: every record crossref_data_to_papis_data returns has a ref field;
\* ref is a string without any whitespace character, and it is the
\* citation-key template applied to the complete record (every mapped field
\* and the derived author), with the whitespace removed.
C13_RefNoWhitespace ==
    (new_data # None /\ ~The(new_data).raised) =>
        LET f == The(new_data).fields
        IN  /\ "ref" \in DOMAIN f
            /\ f["ref"].t = "str"
            /\ \A k \in 1..Len(f["ref"].v) : f["ref"].v[k] \notin Whitespace
            /\ DOMAIN f \ {"ref", "author"} = DOMAIN The(new_data).mapped
            /\ f["ref"].v = strip_whitespace(
                    format_doc_ref([k \in DOMAIN f \ {"ref"} |-> f[k]]))

\* C13's case: the record has a doi with a blank in it and an author made of
\* two names, and both are in ref.
C13_Witness ==
    /\ new_data # None /\ ~The(new_data).raised
    /\ "doi" \in DOMAIN The(new_data).fields
    /\ \E k \in 1..Len(The(new_data).fields["doi"].v) :
            The(new_data).fields["doi"].v[k] = " "
    /\ "author" \in DOMAIN The(new_data).fields
    /\ Len(The(new_data).fields["author_list"].v) = 2
    /\ The(new_data).fields["ref"].v =
            <<"1", "0", ".", "1", "/", "y", "C", ",", "N", "o", "n", "e",
              "a", "n", "d", "E", ",", "D">>

\* The target keys of key_conversion
TargetKeys ==
    UNION {{TargetKey(k, key_conversion[k][i]) : i \in 1..Len(key_conversion[k])} :
            k \in DOMAIN key_conversion}

\* C14: the record the mapping loop builds has only target keys of
\* key_conversion; a source key that key_conversion lacks is not in it; and
\* for every source key that key_conversion has, each of its rules was
\* attempted: its target key holds a value or was logged as failed.
C14_OnlyTargetKeys ==
    (new_data # None /\ data.t = "dict") =>
        LET res == The(new_data)
        IN  /\ DOMAIN res.mapped \subseteq TargetKeys
            /\ \A k \in DOMAIN data.v \ DOMAIN key_conversion :
                    k \notin DOMAIN res.mapped
            /\ \A k \in MappedKeys(data) :
                    \A i \in 1..Len(key_conversion[k]) :
                        LET tk == TargetKey(k, key_conversion[k][i])
                        IN  IF RuleRaises(key_conversion[k][i], data.v[k])
                            THEN tk \in Range(res.log) /\ tk \notin DOMAIN res.mapped
                            ELSE tk \in DOMAIN res.mapped
            /\ \A j \in 1..Len(res.log) :
                    \E k \in MappedKeys(data) : \E i \in 1..Len(key_conversion[k]) :
                        /\ res.log[j] = TargetKey(k, key_conversion[k][i])
                        /\ RuleRaises(key_conversion[k][i], data.v[k])

\* C14's case: the source record has a key key_conversion lacks, a key whose
\* rule succeeded and a key whose rule failed.
C14_Witness ==
    /\ new_data # None /\ data.t = "dict"
    /\ DOMAIN data.v = {"score", "DOI", "type"}
    /\ DOMAIN The(new_data).mapped = {"doi"}
    /\ The(new_data).log = <<"type">>

\* The number of rules key_conversion has for the source keys K
RECURSIVE RuleCount(_)
RuleCount(K) ==
    IF K = {} THEN 0
    ELSE LET k == CHOOSE x \in K : TRUE
         IN  Len(key_conversion[k]) + RuleCount(K \ {k})

\* C15: a source key with n rules of which no transform fails gives exactly
\* n canonical fields, so a record none of whose transforms fails gets as
\* many fields from the mapping loop as its keys have rules; and a
\* 'published-print' date with a year and a month gives both year and month.
C15_FanOut ==
    (new_data # None /\ data.t = "dict") =>
        LET res == The(new_data)
        IN  /\ \A k \in MappedKeys(data) : ~KeyRaises(k, data.v[k]) =>
                    Cardinality({TargetKey(k, key_conversion[k][i]) :
                                    i \in 1..Len(key_conversion[k])}
                                \cap DOMAIN res.mapped) = Len(key_conversion[k])
            /\ (\A k \in MappedKeys(data) : ~KeyRaises(k, data.v[k])) =>
                    Cardinality(DOMAIN res.mapped) = RuleCount(MappedKeys(data))
            /\ ("published-print" \in DOMAIN data.v
                    /\ ~KeyRaises("published-print", data.v["published-print"])) =>
                    /\ {"year", "month"} \subseteq DOMAIN res.mapped
                    /\ res.mapped["year"] =
                            data.v["published-print"].v["date-parts"].v[1].v[1]
                    /\ res.mapped["month"] =
                            data.v["published-print"].v["date-parts"].v[1].v[2]

\* C15's case: a date with year 1 and month 5 was mapped, next to another key.
C15_Witness ==
    /\ new_data # None /\ data.t = "dict"
    /\ "published-print" \in DOMAIN data.v /\ "DOI" \in DOMAIN data.v
    /\ {"year", "month", "doi"} \subseteq DOMAIN The(new_data).mapped
    /\ The(new_data).mapped["year"] = Num(1)
    /\ The(new_data).mapped["month"] = Num(5)
    /\ The(new_data).log = <<>>

\* Scenario A's source record
ScenarioA ==
    Dict([k \in {"DOI", "title", "type"} |->
            CASE k = "DOI" -> Str(<<"1", "0", ".", "1", "/", "x">>)
              [] k = "title" -> List(<<Str(<<"A", " ", "S", "t", "u", "d", "y">>)>>)
              [] k = "type" -> Str(<<"j", "o", "u", "r", "n", "a", "l", "-",
                                     "a", "r", "t", "i", "c", "l", "e">>)])

\* C16: for every rule applied without failure, the field under the rule's
\* 'key' (or under the source key when the rule has none) is the action
\* applied to the source value (or the source value itself when the rule has
\* no action); and Scenario A's record gives doi '10.1/x', title 'A Study'
\* and type 'article'.
C16_RuleSemantics ==
    (new_data # None /\ data.t = "dict") =>
        LET res == The(new_data)
        IN  /\ \A k \in MappedKeys(data) : \A i \in 1..Len(key_conversion[k]) :
                    LET rule == key_conversion[k][i]
                        tk == IF rule.key = None THEN k ELSE The(rule.key)
                    IN  ~RuleRaises(rule, data.v[k]) =>
                            /\ tk \in DOMAIN res.mapped
                            /\ res.mapped[tk] =
                                    IF rule.action = None THEN data.v[k]
                                    ELSE The(Apply(The(rule.action), data.v[k]).val)
            /\ data = ScenarioA =>
                    /\ res.fields["doi"] = Str(<<"1", "0", ".", "1", "/", "x">>)
                    /\ res.fields["title"] = Str(<<"A", " ", "S", "t", "u", "d", "y">>)
                    /\ res.fields["type"] = Str(<<"a", "r", "t", "i", "c", "l", "e">>)

\* C16's case: Scenario A's record was normalized.
C16_Witness ==
    /\ new_data # None
    /\ data = ScenarioA
    /\ {"doi", "title", "type"} \subseteq DOMAIN The(new_data).fields

IsDigit(c) == c \in {"0", "1", "2", "3", "4", "5", "6", "7", "8", "9"}

\* C17: the 'page' rule gives the field pages (and no field page), and a
\* page value made of digits with one dash between them gives pages with
\* exactly two dashes at that place: '12-3' gives '12--3'.
C17_PageDashDoubled ==
    (new_data # None /\ data.t = "dict" /\ "page" \in DOMAIN data.v
        /\ data.v["page"].t = "str") =>
        LET p == data.v["page"].v
            m == The(new_data).mapped
        IN  /\ "page" \notin DOMAIN m
            /\ \A d \in 2..(Len(p) - 1) :
                    (p[d] = "-" /\ \A j \in (1..Len(p)) \ {d} : IsDigit(p[j])) =>
                        /\ "pages" \in DOMAIN m
                        /\ m["pages"] = Str(SubSeq(p, 1, d - 1) \o <<"-", "-">>
                                                \o SubSeq(p, d + 1, Len(p)))
            /\ p = <<"1", "2", "-", "3">> =>
                    m["pages"] = Str(<<"1", "2", "-", "-", "3">>)

\* C17's case: the page range '12-3' was mapped to pages.
C17_Witness ==
    /\ new_data # None /\ data.t = "dict"
    /\ "page" \in DOMAIN data.v
    /\ data.v["page"] = Str(<<"1", "2", "-", "3">>)
    /\ The(new_data).mapped["pages"] = Str(<<"1", "2", "-", "-", "3">>)

\* One author of the source as the display format shows it:
\* family, then ", ", then given (a missing name shows as None)
DisplayName(a) == ToStr(Get(a, "family")) \o <<",", " ">> \o ToStr(Get(a, "given"))

\* C21: the returned record has the field author exactly when the mapping
\* loop produced author_list, which is exactly when the source has 'author'
\* and its transform succeeded; author is then the separator joined over one
\* formatted entry per author of the source, in source order.
C21_AuthorDerived ==
    (new_data # None /\ data.t = "dict") =>
        LET res == The(new_data)
            produced == "author" \in DOMAIN data.v
                            /\ ~KeyRaises("author", data.v["author"])
        IN  /\ ~res.raised
            /\ "author_list" \in DOMAIN res.mapped <=> produced
            /\ "author" \in DOMAIN res.fields <=> produced
            /\ "author" \notin DOMAIN res.mapped
            /\ produced =>
                    /\ res.fields["author_list"] = res.mapped["author_list"]
                    /\ Len(res.fields["author_list"].v) = Len(data.v["author"].v)
                    /\ res.fields["author"] =
                            Str(Join(<<" ", "a", "n", "d", " ">>,
                                     [i \in 1..Len(data.v["author"].v) |->
                                        DisplayName(data.v["author"].v[i])]))

\* C21's case: a source with two authors, the first without a given name.
C21_Witness ==
    /\ new_data # None /\ data.t = "dict"
    /\ "author" \in DOMAIN data.v
    /\ "author_list" \in DOMAIN The(new_data).mapped
    /\ Len(The(new_data).mapped["author_list"].v) = 2
    /\ The(new_data).fields["author"] =
            Str(<<"C", ",", " ", "N", "o", "n", "e", " ", "a", "n", "d", " ",
                  "E", ",", " ", "D">>)

\* C22: failure isolation is per rule: when a source key has several rules
\* and the transform of one raises, every other rule of that key whose
\* transform succeeds still gives its field and the failing rule gives
\* none; a 'published-print' whose date-parts holds only a year gives year
\* and no month.
C22_PerRuleIsolation ==
    (new_data # None /\ data.t = "dict") =>
        LET res == The(new_data)
        IN  /\ \A k \in MappedKeys(data) : \A i, j \in 1..Len(key_conversion[k]) :
                    (/\ i # j
                     /\ RuleRaises(key_conversion[k][i], data.v[k])
                     /\ ~RuleRaises(key_conversion[k][j], data.v[k])) =>
                        /\ ~res.raised
                        /\ TargetKey(k, key_conversion[k][j]) \in DOMAIN res.fields
                        /\ res.fields[TargetKey(k, key_conversion[k][j])] =
                                The(Apply(The(key_conversion[k][j].action), data.v[k]).val)
                        /\ TargetKey(k, key_conversion[k][i]) \notin DOMAIN res.fields
            /\ ("published-print" \in DOMAIN data.v
                    /\ data.v["published-print"] =
                            Dict([x \in {"date-parts"} |-> List(<<List(<<Num(1)>>)>>)])) =>
                    /\ "year" \in DOMAIN res.fields /\ res.fields["year"] = Num(1)
                    /\ "month" \notin DOMAIN res.fields

\* C22's case: a date with only a year was mapped: year set, month logged.
C22_Witness ==
    /\ new_data # None /\ data.t = "dict"
    /\ "published-print" \in DOMAIN data.v
    /\ "year" \in DOMAIN The(new_data).mapped
    /\ The(new_data).mapped["year"] = Num(1)
    /\ "month" \notin DOMAIN The(new_data).fields
    /\ The(new_data).log = <<"month">>

(***************************************************************************)
(* papis.crossref.get_data and doi_to_data                                 *)
(***************************************************************************)
\* What _get_crossref_works gives: it raises ("raise"), or returns a result
\* without 'message' ("nomessage"), with message['items'] ("items") or with
\* the single work as the message ("work"); docs are the source records.
Works(kind, docs) == [kind |-> kind, docs |-> docs]

\* get_data: [] when the retrieval failed or gave no message, else the
\* normalized items.  An item the normalizer raises on is not caught.
normalized(res) ==
    IF \E i \in 1..Len(res) : res[i].raised
    THEN [raised |-> TRUE, data |-> <<>>]
    ELSE [raised |-> FALSE, data |-> [i \in 1..Len(res) |-> res[i].fields]]

get_data(works) ==
    IF works.kind \in {"raise", "nomessage"} THEN [raised |-> FALSE, data |-> <<>>]
    ELSE normalized([i \in 1..Len(works.docs) |->
                        crossref_data_to_papis_data(works.docs[i])])

\* doi_to_data: results[0] when there are results; the raise ValueError sits
\* after the return inside the if, so with no results the function falls off
\* its end and returns None.  val is None for a returned None.
first_result(results) ==
    IF results.raised THEN [raised |-> TRUE, error |-> "Exception", val |-> None]
    ELSE IF results.data # <<>>
    THEN [raised |-> FALSE, error |-> "", val |-> Some(results.data[1])]
    ELSE [raised |-> FALSE, error |-> "", val |-> None]

doi_to_data(works) == first_result(get_data(works))

\* Source records the adapters of the pipeline return
GoodItem == Dict([DOI |-> Str(<<"1", "0", ".", "1", "/", "x">>)])
BadItem == List(<<>>)

(***************************************************************************)
(* The subcommands of explore.  Each is an operator from the accumulator   *)
(* (docs), the number of the invocation (i) and what its collaborators     *)
(* give, to what it leaves behind:                                         *)
(*   docs            ctx.obj['documents'] when the callback is left        *)
(*   out             the records this invocation built                     *)
(*   raised          an exception left the callback                        *)
(*   adapter_failed  the external adapter call raised                      *)
(*   effect          the records a consumer serialized / ran a command on  *)
(*   looked          citations: the DOIs looked up and what came of each   *)
(*   failed_dois     citations: failed_dois                                *)
(*   batch           crossref: the items of the result, TRUE for a mapping *)
(*   args            citations: what the callback was given                *)
(***************************************************************************)
Returned(docs, out) ==
    [docs |-> docs, out |-> out, raised |-> FALSE, adapter_failed |-> FALSE,
     effect |-> <<>>, looked |-> <<>>, failed_dois |-> <<>>, batch |-> <<>>,
     args |-> <<>>]
Raised(docs) == [Returned(docs, <<>>) EXCEPT !.raised = TRUE]

\* An adapter call: it raises, or returns n raw records
AdapterResults ==
    {[raised |-> TRUE, n |-> 0]} \cup {[raised |-> FALSE, n |-> k] : k \in 0..MaxOut}

arxiv_prepend(docs, i, r) ==
    IF r.raised THEN [Raised(docs) EXCEPT !.adapter_failed = TRUE]
    ELSE Returned(from_data(i, r.n) \o docs, from_data(i, r.n))

\* arxiv: papis.arxiv.get_data is called outside any try
arxiv(docs, i, r) ==
    IF r.raised THEN [Raised(docs) EXCEPT !.adapter_failed = TRUE]
    ELSE Returned(docs \o from_data(i, r.n), from_data(i, r.n))

\* libgen: lg.search is called outside the try, lg.lookup inside it
libgen(docs, i, search_raises, lookup) ==
    IF search_raises THEN [Raised(docs) EXCEPT !.adapter_failed = TRUE]
    ELSE LET n == IF lookup.raised THEN 0 ELSE lookup.n
         IN  [Returned(docs \o from_data(i, n), from_data(i, n))
                EXCEPT !.adapter_failed = lookup.raised]

\* crossref: papis.crossref.get_data catches the retrieval error itself
is_mapping(works) == [k \in 1..Len(works.docs) |-> works.docs[k].t = "dict"]

crossref_docs(docs, i, works, r) ==
    IF r.raised THEN [Raised(docs) EXCEPT !.batch = is_mapping(works)]
    ELSE [Returned(docs \o from_data(i, Len(r.data)), from_data(i, Len(r.data)))
            EXCEPT !.adapter_failed = (works.kind = "raise"),
                   !.batch = is_mapping(works)]

crossref(docs, i, works) == crossref_docs(docs, i, works, get_data(works))

\* isbnplus: get_data inside try/except, data = [] on any exception
isbnplus(docs, i, r) ==
    LET n == IF r.raised THEN 0 ELSE r.n
    IN  [Returned(docs \o from_data(i, n), from_data(i, n))
            EXCEPT !.adapter_failed = r.raised]

\* isbn, dissemin, base: the adapter is called outside any try
isbn(docs, i, r) ==
    IF r.raised THEN [Raised(docs) EXCEPT !.adapter_failed = TRUE]
    ELSE Returned(docs \o from_data(i, r.n), from_data(i, r.n))

dissemin(docs, i, r) ==
    IF r.raised THEN [Raised(docs) EXCEPT !.adapter_failed = TRUE]
    ELSE Returned(docs \o from_data(i, r.n), from_data(i, r.n))

base(docs, i, r) ==
    IF r.raised THEN [Raised(docs) EXCEPT !.adapter_failed = TRUE]
    ELSE Returned(docs \o from_data(i, r.n), from_data(i, r.n))

\* lib: the doc_folder document is appended before the database is queried
lib(docs, i, doc_folder, query) ==
    LET first == IF doc_folder THEN docs \o <<Doc(i, 0, "folder")>> ELSE docs
        found == [k \in 1..query.n |-> Doc(i, k, "lib")]
    IN  IF query.raised THEN [Raised(first) EXCEPT !.adapter_failed = TRUE]
        ELSE Returned(first \o found, SubSeq(first, Len(docs) + 1, Len(first)) \o found)

\* bibtex, yaml, json: the records of a file, read outside any try
bibtex(docs, i, r) ==
    IF r.raised THEN Raised(docs)
    ELSE Returned(docs \o from_data(i, r.n), from_data(i, r.n))

yaml(docs, i, r) ==
    IF r.raised THEN Raised(docs)
    ELSE Returned(docs \o from_data(i, r.n), from_data(i, r.n))

json(docs, i, r) ==
    IF r.raised THEN Raised(docs)
    ELSE Returned(docs \o from_data(i, r.n), from_data(i, r.n))

\* papis.api.pick_doc: nothing to pick from gives None, a single document is
\* returned as it is, and among several the user chooses one (choice, its
\* 1-based position) or none (choice = 0).
pick_doc(docs, choice) ==
    IF Len(docs) = 0 THEN None
    ELSE IF Len(docs) = 1 THEN Some(docs[1])
    ELSE IF choice \in 1..Len(docs) THEN Some(docs[choice])
    ELSE None

\* pick: docs[number - 1] when --number is given (Python indexing), then
\* pick_doc, and the accumulator becomes the picked document, if any
\* (the entry None is shown as a record of no invocation)
not_none_unfiltered(picked) ==
    IF picked # None THEN <<The(picked)>> ELSE <<Doc(0, 0, "None")>>

not_none(picked) == IF picked # None THEN <<The(picked)>> ELSE <<>>

pick_nth(docs, nth) ==
    IF nth.raised THEN Raised(docs)
    ELSE Returned(not_none(pick_doc(<<The(nth.val)>>, 0)), <<>>)

pick_zero_based(docs, number, choice) ==
    IF number # None THEN pick_nth(docs, PyIndex(docs, The(number)))
    ELSE Returned(not_none(pick_doc(docs, choice)), <<>>)

pick(docs, number, choice) ==
    IF number # None THEN pick_nth(docs, PyIndex(docs, The(number) - 1))
    ELSE Returned(not_none(pick_doc(docs, choice)), <<>>)

export_consuming(docs, run_raises) ==
    IF run_raises THEN Raised(docs)
    ELSE [Returned(<<>>, <<>>) EXCEPT !.effect = docs]

\* export: papis.commands.export.run serializes docs (it may raise on a
\* record), and the string is written or printed; ctx.obj is not assigned
export(docs, run_raises) ==
    IF run_raises THEN Raised(docs)
    ELSE [Returned(docs, <<>>) EXCEPT !.effect = docs]

cmd_first_document(docs, fail_at) ==
    IF docs = <<>> \/ fail_at \in 1..Len(docs)
    THEN [Raised(docs) EXCEPT !.effect = SubSeq(docs, 1, fail_at - 1)]
    ELSE [Returned(docs, <<>>) EXCEPT !.effect = docs]

\* cmd: format, split and call once per document, in order; fail_at is the
\* position of the document at which one of the three raises (0: none)
cmd(docs, fail_at) ==
    IF fail_at \in 1..Len(docs)
    THEN [Raised(docs) EXCEPT !.effect = SubSeq(docs, 1, fail_at - 1)]
    ELSE [Returned(docs, <<>>) EXCEPT !.effect = docs]

(***************************************************************************)
(* citations                                                               *)
(***************************************************************************)
\* One entry of doc['citations']: without a doi ("nodoi"), or with a doi
\* that db.query_dict finds in the library ("lib"), or that crossref is
\* asked for: _get_crossref_works returns the work ("work"), raises
\* ("raise"), returns no message ("nomessage"), or returns a work that is
\* no mapping ("invalid").
CitationKinds == {"nodoi", "lib", "work", "raise", "nomessage", "invalid"}

WorksOf(kind) ==
    CASE kind = "work" -> Works("work", <<GoodItem>>)
      [] kind = "invalid" -> Works("work", <<BadItem>>)
      [] OTHER -> Works(kind, <<>>)

\* The body of the loop over dois for one doi: acc.with_data is
\* dois_with_data ("lib", "crossref" or "None" per element), acc.failed is
\* failed_dois, acc.looked the log.  r is what doi_to_data does.
resolve_one(acc, doi, in_lib, r) ==
    IF in_lib
    THEN [acc EXCEPT !.with_data = Append(@, "lib"),
                     !.looked = Append(@, [doi |-> doi, got |-> "lib"])]
    ELSE IF ~r.raised
    THEN [acc EXCEPT !.with_data = Append(@, IF r.val = None THEN "None" ELSE "crossref"),
                     !.looked = Append(@, [doi |-> doi,
                                    got |-> IF r.val = None THEN "None" ELSE "data"])]
    ELSE IF r.error = "ValueError"
    THEN [acc EXCEPT !.failed = Append(@, doi),
                     !.looked = Append(@, [doi |-> doi, got |-> "ValueError"])]
    ELSE [acc EXCEPT !.looked = Append(@, [doi |-> doi, got |-> "Exception"])]

\* for j, doi in enumerate(dois).  A doi is named by the position of its
\* entry in doc['citations'].
RECURSIVE resolve(_, _, _)
resolve(acc, dois, cits) ==
    IF dois = <<>> THEN acc
    ELSE resolve(resolve_one(acc, Head(dois), cits[Head(dois)] = "lib",
                             doi_to_data(WorksOf(cits[Head(dois)]))),
                 Tail(dois), cits)

\* What citations is given:
\*   sel   "nodocs": no document matches; "None": pick_doc returns None;
\*         "doc": a document is picked
\*   file  citations.yaml is "absent", "removed" (--rmfile), "declined"
\*         (not used) or "used" (read by yaml.callback, which gives read)
\*   cits  doc['citations'] (empty also when the document has none)
\* dois = [d.get('doi') for d in doc['citations'] if d.get('doi')]
dois_with_doi(cits) ==
    SelectSeq([k \in 1..Len(cits) |-> k], LAMBDA k : cits[k] # "nodoi")

limit_unbounded(dois, max_citations) == dois

\* if max_citations < 0: max_citations = len(dois)
\* dois = dois[0:min(max_citations, len(dois))]
limit(dois, max_citations) ==
    PySlice(dois, IF max_citations < 0 THEN Len(dois) ELSE max_citations)

dois_of(cits, max_citations) == limit(dois_with_doi(cits), max_citations)

\* docs = [Document(data=d) for d in dois_with_data], the optional save, and
\* ctx.obj['documents'] += docs
citations_append(docs, save, acc, new) ==
    [Returned(docs \o new, new)
        EXCEPT !.looked = acc.looked,
               !.failed_dois = acc.failed,
               !.effect = IF save THEN new ELSE <<>>]

citations_docs(docs, i, save, acc) ==
    citations_append(docs, save, acc,
        [k \in 1..Len(acc.with_data) |-> Doc(i, k, acc.with_data[k])])

citations_run(docs, i, inp) ==
    IF inp.sel = "nodocs" THEN Returned(docs, <<>>)
    ELSE IF inp.sel = "None" THEN Raised(docs)
    ELSE IF inp.file = "used" THEN yaml(docs, i, inp.read)
    ELSE IF inp.cits = <<>> THEN Returned(docs, <<>>)
    ELSE citations_docs(docs, i, inp.save,
            resolve([with_data |-> <<>>, failed |-> <<>>, looked |-> <<>>],
                    dois_of(inp.cits, inp.max_citations), inp.cits))

citations(docs, i, inp) == [citations_run(docs, i, inp) EXCEPT !.args = inp]

\* The inputs of citations with at most n entries in doc['citations']
CitationsInputs(n) ==
    {[sel |-> s, file |-> "absent", read |-> [raised |-> FALSE, n |-> 0],
      cits |-> <<>>, max_citations |-> -1, save |-> FALSE] : s \in {"nodocs", "None"}}
    \cup
    {[sel |-> "doc", file |-> "used", read |-> r,
      cits |-> <<>>, max_citations |-> -1, save |-> FALSE] : r \in AdapterResults}
    \cup
    {[sel |-> "doc", file |-> f, read |-> [raised |-> FALSE, n |-> 0],
      cits |-> c, max_citations |-> m, save |-> s] :
        f \in {"absent", "removed", "declined"}, c \in SeqsUpTo(CitationKinds, n),
        m \in -1..n, s \in BOOLEAN}

\* The inputs the citations stage is run on inside a chain: a sample of
\* CitationsInputs (SpecCitations runs the stage on all of them).
ChainCitationsInputs ==
    {inp \in CitationsInputs(1) :
        /\ inp.file \in {"absent", "used"}
        /\ inp.max_citations = -1
        /\ ~inp.save
        /\ \A k \in 1..Len(inp.cits) : inp.cits[k] \in {"lib", "raise"}}

(***************************************************************************)
(* The chain: click resolves the subcommands of the command line, runs the *)
(* group callback cli, and invokes the subcommand callbacks in the order   *)
(* given, each on the same ctx.obj.  An exception that leaves a callback   *)
(* ends the run.                                                           *)
(***************************************************************************)
StageNames ==
    {"arxiv", "libgen", "crossref", "isbnplus", "isbn", "dissemin", "base",
     "lib", "pick", "bibtex", "citations", "yaml", "json", "export", "cmd"}

Producers == StageNames \ {"pick", "export", "cmd"}
Consumers == {"export", "cmd"}

\* A word of the command line that names no subcommand of explore
UnknownName == "nosuch"

\* The command lines: chains of subcommand names, registered or not
Chains == UNION {[1..n -> StageNames \cup {UnknownName}] : n \in 1..MaxStages}

\* click, chain mode: after the group callback, every subcommand of the
\* command line is resolved (cli.commands) and its context made, and only
\* then is the first callback invoked; a name that is not registered raises
\* a UsageError.
resolve_command(name) == name \in StageNames

resolve_next_only(chain) == resolve_command(chain[1])

resolve_commands(chain) == \A k \in 1..Len(chain) : resolve_command(chain[k])

Init ==
    /\ pending \in Chains
    /\ idx = 0
    /\ documents = <<>>
    /\ status = "Idle"
    /\ last = NoLast
    /\ data = NoneV
    /\ new_data = None
    /\ edit = NoEdit

\* cli: ctx.obj = {'documents': []}, then the chain is resolved
cli ==
    /\ status = "Idle"
    /\ pending # <<>>
    /\ documents' = <<>>
    /\ status' = IF resolve_commands(pending) THEN "Running" ELSE "UsageError"
    /\ UNCHANGED <<pending, idx, last, data, new_data, edit>>

Ready_after_failure(name) ==
    status \in {"Running", "Failed"} /\ pending # <<>> /\ Head(pending) = name

\* The next subcommand of the chain is `name`
Ready(name) == status = "Running" /\ pending # <<>> /\ Head(pending) = name

\* The callback of the next subcommand ran and left o
Invoked(name, number, o) ==
    /\ pending' = Tail(pending)
    /\ idx' = idx + 1
    /\ documents' = o.docs
    /\ status' = IF o.raised THEN "Failed" ELSE "Running"
    /\ last' = [name |-> name, before |-> documents, out |-> o.out,
                raised |-> o.raised, adapter_failed |-> o.adapter_failed,
                number |-> number, effect |-> o.effect, looked |-> o.looked,
                failed_dois |-> o.failed_dois, batch |-> o.batch,
                args |-> o.args]
    /\ UNCHANGED <<data, new_data, edit>>

ItemSeqs == SeqsUpTo({GoodItem, BadItem}, MaxOut)
WorksResults ==
    {Works("raise", <<>>), Works("nomessage", <<>>)}
    \cup {Works("items", s) : s \in ItemSeqs}

arxiv_stage ==
    Ready("arxiv") /\ \E r \in AdapterResults :
        Invoked("arxiv", None, arxiv(documents, idx + 1, r))

libgen_stage ==
    Ready("libgen") /\ \E s \in BOOLEAN, r \in AdapterResults :
        Invoked("libgen", None, libgen(documents, idx + 1, s, r))

crossref_stage ==
    Ready("crossref") /\ \E w \in WorksResults :
        Invoked("crossref", None, crossref(documents, idx + 1, w))

isbnplus_stage ==
    Ready("isbnplus") /\ \E r \in AdapterResults :
        Invoked("isbnplus", None, isbnplus(documents, idx + 1, r))

isbn_stage ==
    Ready("isbn") /\ \E r \in AdapterResults :
        Invoked("isbn", None, isbn(documents, idx + 1, r))

dissemin_stage ==
    Ready("dissemin") /\ \E r \in AdapterResults :
        Invoked("dissemin", None, dissemin(documents, idx + 1, r))

base_stage ==
    Ready("base") /\ \E r \in AdapterResults :
        Invoked("base", None, base(documents, idx + 1, r))

lib_stage ==
    Ready("lib") /\ \E f \in BOOLEAN, q \in AdapterResults :
        Invoked("lib", None, lib(documents, idx + 1, f, q))

\* --number is absent or an integer; choice is what the user does in the picker
pick_stage ==
    Ready("pick") /\
    \E number \in {None} \cup {Some(n) : n \in -1..(Len(documents) + 1)},
       choice \in 0..Len(documents) :
        Invoked("pick", number, pick(documents, number, choice))

bibtex_stage ==
    Ready("bibtex") /\ \E r \in AdapterResults :
        Invoked("bibtex", None, bibtex(documents, idx + 1, r))

citations_stage ==
    Ready("citations") /\ \E inp \in ChainCitationsInputs :
        Invoked("citations", None, citations(documents, idx + 1, inp))

yaml_stage ==
    Ready("yaml") /\ \E r \in AdapterResults :
        Invoked("yaml", None, yaml(documents, idx + 1, r))

json_stage ==
    Ready("json") /\ \E r \in AdapterResults :
        Invoked("json", None, json(documents, idx + 1, r))

\* papis.commands.export.run is a function of the records it is given: it
\* can raise only on a record it serializes
export_run_outcomes(docs) == {b \in BOOLEAN : b => docs # <<>>}

export_stage ==
    Ready("export") /\ \E run_raises \in export_run_outcomes(documents) :
        Invoked("export", None, export(documents, run_raises))

cmd_stage ==
    Ready("cmd") /\ \E fail_at \in 0..Len(documents) :
        Invoked("cmd", None, cmd(documents, fail_at))

finish_early ==
    /\ status = "Running"
    /\ status' = "Completed"
    /\ UNCHANGED <<pending, idx, documents, last, data, new_data, edit>>

\* Every subcommand was invoked and returned
finish ==
    /\ status = "Running"
    /\ pending = <<>>
    /\ status' = "Completed"
    /\ UNCHANGED <<pending, idx, documents, last, data, new_data, edit>>

Next ==
    \/ cli
    \/ arxiv_stage
    \/ libgen_stage
    \/ crossref_stage
    \/ isbnplus_stage
    \/ isbn_stage
    \/ dissemin_stage
    \/ base_stage
    \/ lib_stage
    \/ pick_stage
    \/ bibtex_stage
    \/ citations_stage
    \/ yaml_stage
    \/ json_stage
    \/ export_stage
    \/ cmd_stage
    \/ finish

Spec == Init /\ [][Next]_vars

(***************************************************************************)
(* SpecCitations: the citations stage on every input, after a yaml stage   *)
(***************************************************************************)
InitCitations ==
    /\ pending = <<"yaml", "citations">>
    /\ idx = 0
    /\ documents = <<>>
    /\ status = "Idle"
    /\ last = NoLast
    /\ data = NoneV
    /\ new_data = None
    /\ edit = NoEdit

citations_stage_all ==
    Ready("citations") /\ \E inp \in CitationsInputs(MaxCitations) :
        Invoked("citations", None, citations(documents, idx + 1, inp))

NextCitations ==
    \/ cli
    \/ yaml_stage
    \/ citations_stage_all
    \/ finish

SpecCitations == InitCitations /\ [][NextCitations]_vars

(***************************************************************************)
(* SpecEdit: one run of Edit.main                                          *)
(***************************************************************************)
InitEdit ==
    /\ \E n \in BOOLEAN, f \in {None} \cup {Some(x) : x \in NotesNames}, d \in Folders :
            edit = [pc |-> "start", notes |-> n, field |-> f, saved |-> f, saves |-> 0,
                    files |-> d, editor |-> None, was |-> [field |-> f, files |-> d]]
    /\ pending = <<>>
    /\ idx = 0
    /\ documents = <<>>
    /\ status = "Idle"
    /\ last = NoLast
    /\ data = NoneV
    /\ new_data = None

Unedited == UNCHANGED <<pending, idx, documents, status, last, data, new_data>>

\* line 42
pick_document ==
    /\ edit.pc = "start"
    /\ \E picked \in BOOLEAN : edit' = main_pick(edit, picked)
    /\ Unedited

\* lines 43-50
ensure_notes_field ==
    /\ edit.pc = "picked" /\ edit.notes
    /\ \E ok \in BOOLEAN : edit' = notes_field(edit, ok)
    /\ Unedited

\* lines 51-58
ensure_notes_file ==
    /\ edit.pc = "named"
    /\ \E ok \in BOOLEAN : edit' = notes_file(edit, ok)
    /\ Unedited

\* line 59
edit_notes ==
    /\ edit.pc = "ready"
    /\ edit' = editFile(edit, The(edit.field))
    /\ Unedited

\* line 61
edit_info ==
    /\ edit.pc = "picked" /\ ~edit.notes
    /\ edit' = editFile(edit, InfoFile)
    /\ Unedited

NextEdit ==
    \/ pick_document
    \/ ensure_notes_field
    \/ ensure_notes_file
    \/ edit_notes
    \/ edit_info

SpecEdit == InitEdit /\ [][NextEdit]_vars

(***************************************************************************)
(* Properties of the chain                                                 *)
(***************************************************************************)
\* A step that invokes the next subcommand
Invocation == idx' = idx + 1
Returns(l) == l.name # "" /\ ~l.raised

\* C2: the subcommands are invoked in the order of the chain, each sees the
\* accumulator the ones before it left, and a producer only appends: after
\* one producer the accumulator is what it was followed by the producer's
\* records, and after two producers in a row it is the accumulator before the
\* first, then the first's records, then the second's.
C2_ProducersAppendInOrder ==
    [][Invocation =>
        /\ last'.name = Head(pending) /\ pending' = Tail(pending)
        /\ last'.before = documents
        /\ (last'.name \in Producers /\ Returns(last')) =>
                documents' = documents \o last'.out
        /\ (last.name \in Producers /\ Returns(last)
                /\ last'.name \in Producers /\ Returns(last')) =>
                documents' = last.before \o last.out \o last'.out]_vars

\* C2's case: a second producer has appended its records behind those of
\* the producer before it, and a further stage is still to see them.
C2_Witness ==
    /\ idx >= 2 /\ pending # <<>>
    /\ last.name \in Producers /\ Returns(last)
    /\ last.out # <<>>
    /\ last.before # <<>> /\ last.before[Len(last.before)].stage = idx - 1
    /\ documents = last.before \o last.out

\* C3: when the external adapter call of arxiv, libgen, crossref, isbnplus,
\* isbn, dissemin or base fails, the stage contributes no record, leaves the
\* accumulator as it was, and the run goes on: no exception leaves the stage.
C3_AdapterFailureContained ==
    (last.name \in {"arxiv", "libgen", "crossref", "isbnplus", "isbn", "dissemin", "base"}
        /\ last.adapter_failed) =>
        /\ ~last.raised
        /\ status # "Failed"
        /\ last.out = <<>>
        /\ documents = last.before

\* The DOIs of a citations run that were not resolved: neither found in the
\* library nor answered by crossref with a record
Unresolved(l) == {k \in 1..Len(l.looked) : l.looked[k].got \notin {"lib", "data"}}

\* C4: when k of the n DOIs citations looks up cannot be resolved, the stage
\* appends exactly n - k records, each a resolved record, and each of the k
\* DOIs is in failed_dois; nothing is raised.
C4_UnresolvedCitationsSkipped ==
    (last.name = "citations" /\ last.looked # <<>>) =>
        /\ ~last.raised
        /\ Len(last.out) = Len(last.looked) - Cardinality(Unresolved(last))
        /\ \A k \in 1..Len(last.out) : last.out[k].data \in {"lib", "crossref"}
        /\ {last.looked[k].doi : k \in Unresolved(last)} = Range(last.failed_dois)
        /\ documents = last.before \o last.out

\* C5: doi_to_data returns a data dictionary or raises ValueError; it never
\* returns None.
C5_DoiToDataNeverNone ==
    last.name = "citations" =>
        \A k \in 1..Len(last.looked) : last.looked[k].got # "None"

\* C6: with --number n, 1 <= n <= length of the accumulator, pick leaves
\* exactly the record at the 1-based position n, and an export that follows
\* serializes exactly that record.
C6_PickNumber ==
    [][Invocation =>
        /\ (last'.name = "pick" /\ last'.number # None
                /\ The(last'.number) \in 1..Len(documents)) =>
                /\ ~last'.raised
                /\ documents' = <<documents[The(last'.number)]>>
        /\ (last.name = "pick" /\ Returns(last) /\ last.number # None
                /\ The(last.number) \in 1..Len(last.before)
                /\ last'.name = "export" /\ Returns(last')) =>
                last'.effect = <<last.before[The(last.number)]>>]_vars

\* C6's case: pick --number 2 has run on an accumulator of two or more
\* records, left the second, and an export comes next.
C6_Witness ==
    /\ last.name = "pick" /\ Returns(last)
    /\ last.number = Some(2)
    /\ Len(last.before) >= 2
    /\ documents = <<last.before[2]>>
    /\ pending # <<>> /\ Head(pending) = "export"

\* C7: pick on an empty accumulator, with or without --number, returns an
\* empty accumulator and does not fail.
C7_PickOnEmpty ==
    (last.name = "pick" /\ last.before = <<>>) =>
        /\ ~last.raised
        /\ status # "Failed"
        /\ documents = <<>>

\* C8: with --number n outside 1..length of a non-empty accumulator, pick
\* selects no record of another position: the accumulator becomes empty.
C8_PickOutOfRange ==
    (last.name = "pick" /\ last.before # <<>> /\ last.number # None
        /\ The(last.number) \notin 1..Len(last.before)) =>
        /\ ~last.raised
        /\ documents = <<>>

\* C9: export and cmd leave the accumulator as it was, the same records in
\* the same order, whether they return or raise.
C9_ConsumersPassThrough ==
    last.name \in Consumers => documents = last.before

\* C9's case: export has run on a non-empty accumulator and a pick follows.
C9_Witness ==
    /\ last.name = "export" /\ Returns(last)
    /\ last.before # <<>>
    /\ last.effect = last.before
    /\ pending # <<>> /\ Head(pending) = "pick"

\* C10: a consumer that finds the accumulator empty completes without
\* failure and acts on no record: cmd calls no command, export serializes
\* the empty list.
C10_ConsumersOnEmpty ==
    (last.name \in Consumers /\ last.before = <<>>) =>
        /\ ~last.raised
        /\ status # "Failed"
        /\ last.effect = <<>>
        /\ documents = <<>>

\* C10's case: cmd has run, after an earlier stage, on an empty accumulator.
C10_Witness ==
    /\ idx >= 2
    /\ last.name = "cmd" /\ Returns(last)
    /\ last.before = <<>>
    /\ status = "Running"

\* C11: when pick, export or cmd raises, the exception leaves the callback
\* and the run is Failed (the error reaches the caller), and no subcommand
\* declared after it is invoked.
C11_StageErrorAborts ==
    [][/\ (Invocation /\ last'.name \in {"pick", "export", "cmd"} /\ last'.raised) =>
            status' = "Failed"
       /\ (last.name \in {"pick", "export", "cmd"} /\ last.raised) =>
            (~Invocation /\ status' = "Failed" /\ pending' = pending
                /\ documents' = documents)]_vars

\* C11's case: pick has raised with subcommands still declared after it.
C11_Witness ==
    /\ last.name = "pick" /\ last.raised
    /\ status = "Failed"
    /\ pending # <<>>

\* C12: while a name of the chain does not resolve to a registered
\* subcommand, wherever it stands in the chain, no subcommand has been
\* invoked: no producer was called, no consumer had an effect, and the run
\* is not started or has ended in a usage error.
C12_UnknownStageFailsFirst ==
    (\E k \in 1..Len(pending) : ~resolve_command(pending[k])) =>
        /\ idx = 0
        /\ last = NoLast
        /\ documents = <<>>
        /\ status \in {"Idle", "UsageError"}

\* C12's case: the chain starts with a producer and a consumer, its last
\* name is unknown, and the run has ended in a usage error.
C12_Witness ==
    /\ status = "UsageError"
    /\ Len(pending) >= 3
    /\ pending[1] \in Producers /\ pending[2] \in Consumers
    /\ pending[Len(pending)] = UnknownName
    /\ idx = 0 /\ last = NoLast

\* C18: when an item of a crossref result is no mapping, that item gives no
\* record and the other items are normalized and returned: the crossref
\* stage does not raise, the run goes on, and the stage appends one record
\* per item that is a mapping.
C18_BadItemSkipped ==
    (last.name = "crossref" /\ \E k \in 1..Len(last.batch) : ~last.batch[k]) =>
        /\ ~last.raised
        /\ status # "Failed"
        /\ Len(last.out) = Cardinality({k \in 1..Len(last.batch) : last.batch[k]})
        /\ documents = last.before \o last.out

\* C19: a producer that fails leaves the accumulator exactly as it was
\* before it started, with none of the records of that invocation.
C19_ProducerAtomic ==
    (last.name \in Producers /\ last.raised) => documents = last.before

\* C20: a run starts with an empty accumulator and no subcommand invoked;
\* each step invokes at most the next declared subcommand, once (the number
\* invoked and the number still to invoke add up to the length of the
\* chain); the run goes from Idle to Running, stays Running from one
\* subcommand to the next, and ends in Completed when none is left or in
\* Failed at the first callback that raises; nothing happens after either.
\* (A command line that does not resolve never starts running.)
C20_LinearRun ==
    [][/\ status = "Idle" => (idx = 0 /\ documents = <<>> /\ documents' = <<>>)
       /\ idx' \in {idx, idx + 1}
       /\ idx' + Len(pending') = idx + Len(pending)
       /\ Invocation => (status = "Running" /\ pending' = Tail(pending)
                            /\ last'.name = Head(pending))
       /\ <<status, status'>> \in
                {<<"Idle", "Running">>, <<"Idle", "UsageError">>,
                 <<"Running", "Running">>, <<"Running", "Completed">>,
                 <<"Running", "Failed">>}
       /\ status' = "Completed" => (pending' = <<>> /\ ~last'.raised)
       /\ status' = "Failed" => (Invocation /\ last'.raised)
       /\ (Invocation /\ last'.raised) => status' = "Failed"
       /\ status \in {"Completed", "Failed", "UsageError"} => FALSE]_vars

\* C20's case: a chain of three subcommands ran to Completed.
C20_Witness ==
    /\ status = "Completed"
    /\ idx = 3
    /\ pending = <<>>
    /\ documents # <<>>

\* C23: after a pick that returns, the accumulator holds at most one record,
\* and that record is one of the records the accumulator held right before
\* the pick: no None entry, no record that was not there.
C23_PickAtMostOneFromBefore ==
    (last.name = "pick" /\ ~last.raised) =>
        /\ Len(documents) <= 1
        /\ \A k \in 1..Len(documents) : documents[k] \in Range(last.before)
        /\ last.before = <<>> => documents = <<>>

\* C23's case: the user picked the second of several records.
C23_Witness ==
    /\ last.name = "pick" /\ ~last.raised
    /\ last.number = None
    /\ Len(last.before) >= 2
    /\ documents = <<last.before[2]>>

\* The citations run looked DOIs up: a document was picked, its stored
\* citations file was not used, and the document has citations
LookedUp(l) ==
    /\ l.name = "citations"
    /\ l.args.sel = "doc" /\ l.args.file # "used" /\ l.args.cits # <<>>

\* The positions of the citations that carry a doi
WithDoi(cits) == {k \in 1..Len(cits) : cits[k] # "nodoi"}

Min(a, b) == IF a < b THEN a ELSE b

\* C24: citations looks up min(max_citations, number of citations with a
\* doi) DOIs when max_citations >= 0 and all of them when it is negative:
\* the first ones in the order of the document's citations list; a DOI the
\* library has is taken from the library and not asked of crossref; and the
\* stage appends at most that many records.
C24_MaxCitations ==
    LookedUp(last) =>
        LET cits == last.args.cits
            m == last.args.max_citations
            n == IF m < 0 THEN Cardinality(WithDoi(cits))
                 ELSE Min(m, Cardinality(WithDoi(cits)))
        IN  /\ Len(last.looked) = n
            /\ \A j \in 1..Len(last.looked) :
                    /\ last.looked[j].doi \in WithDoi(cits)
                    /\ Cardinality({k \in WithDoi(cits) : k <= last.looked[j].doi}) = j
                    /\ last.looked[j].got = "lib" <=> cits[last.looked[j].doi] = "lib"
            /\ Len(last.out) <= n
            /\ \A j \in 1..Len(last.out) : last.out[j].data = "lib" =>
                    \E k \in 1..Len(last.looked) : last.looked[k].got = "lib"
            /\ documents = last.before \o last.out

\* C24's case: two citations carry a doi, the first is in the library, and
\* --max-citations 1 looked only that one up.
C24_Witness ==
    /\ LookedUp(last)
    /\ Cardinality(WithDoi(last.args.cits)) = 2
    /\ last.args.max_citations = 1
    /\ Len(last.looked) = 1
    /\ last.looked[1].got = "lib"
    /\ Len(last.out) = 1 /\ last.out[1].data = "lib"

\* C25: with --notes, from the moment main is about to open the editor, the
\* document has a notes field, which is its old value when it had one (and
\* then the document was not saved) and 'notes.tex', saved, when it had
\* none; the notes file is in the main folder, created empty only when it
\* was missing, every file that was there being as it was; and the editor
\* is opened on the notes file and not before.  Without --notes the
\* document and its folder are never changed and the editor is opened on
\* the info file.
C25_EditNotes ==
    /\ edit.pc \notin {"done", "none"} => edit.editor = None
    /\ \A f \in DOMAIN edit.was.files :
            f \in DOMAIN edit.files /\ edit.files[f] = edit.was.files[f]
    /\ edit.was.field # None =>
            (edit.field = edit.was.field /\ edit.saved = edit.was.field
                /\ edit.saves = 0)
    /\ (edit.notes /\ edit.pc \in {"ready", "done"}) =>
            /\ edit.field # None
            /\ edit.saved = edit.field
            /\ edit.was.field = None => (edit.field = Some("notes.tex") /\ edit.saves = 1)
            /\ The(edit.field) \in DOMAIN edit.files
            /\ DOMAIN edit.files \ DOMAIN edit.was.files \subseteq {The(edit.field)}
            /\ The(edit.field) \notin DOMAIN edit.was.files =>
                    edit.files[The(edit.field)] = "empty"
    /\ (edit.notes /\ edit.pc = "done") => edit.editor = edit.field
    /\ (~edit.notes /\ edit.pc # "none") =>
            /\ edit.field = edit.was.field /\ edit.saved = edit.was.field
            /\ edit.saves = 0
            /\ edit.files = edit.was.files
            /\ edit.pc = "done" => edit.editor = Some(InfoFile)

\* C25's case: --notes on a document without a notes field whose folder has
\* another file: the field was set and saved, notes.tex created empty, and
\* the editor opened on it.
C25_Witness ==
    /\ edit.pc = "done" /\ edit.notes
    /\ edit.was.field = None
    /\ DOMAIN edit.was.files = {"todo.md"}
    /\ edit.field = Some("notes.tex") /\ edit.saved = Some("notes.tex")
    /\ DOMAIN edit.files = {"todo.md", "notes.tex"}
    /\ edit.files["notes.tex"] = "empty"
    /\ edit.editor = Some("notes.tex")

====
